---- MODULE Spec2Model ----
(***************************************************************************)
(* Fault diagnosis of boolean gate trees (schemdraw/parsing/circuit.py):    *)
(* the Node tree and its fault-aware evaluation, the Circuit registry,      *)
(* find_minimal_faulty_gates, minimal_list_of_lists and the record          *)
(* serialisation save_circuit / create_circuit_from_list.                   *)
(*                                                                          *)
(* A Python call either returns a value or raises.  Both outcomes are       *)
(* values of the model: Returns(v) and Raises(e), e the exception's name.   *)
(***************************************************************************)
EXTENDS Integers, Sequences, FiniteSets, TLC

VARIABLES circuit, tree, out

vars == <<circuit, tree, out>>

----------------------------------------------------------------------------
(* Bounds of the model.                                                     *)

\* AddNode is explored while the gate-label list is shorter than this.
MaxGateLabels == 2
\* Longest candidate list handed to minimal_list_of_lists.
MaxLists == 3
\* Depth at which the interpreter stops a recursion (scaled down).
RecursionLimit == 4

----------------------------------------------------------------------------
(* Python values.                                                           *)

None == "<None>"
NoneNode == [none |-> TRUE]

Returns(v) == [value |-> v]
Raises(e) == [raise |-> e]
IsRaise(r) == "raise" \in DOMAIN r

\* str.islower() on the strings of the model: the variable names are the
\* lower-case strings, labels, "" and None's stand-in are not.
LowerCaseStrings == {"a", "b", "c"}
islower(s) == s \in LowerCaseStrings

\* Python's order on the label strings (sorted()).
LabelOrder == <<"A", "B", "C">>

----------------------------------------------------------------------------
(* circuit.py 5-42: the operator tables.                                    *)

\* Each lambda of BASE_OPERATIONS, applied to the argument tuple args.
\* A call with the wrong number of arguments raises TypeError, a symbol
\* that is no key of the table raises KeyError.
BASE_OPERATIONS(gate, args) ==
    LET x == args[1]
        y == args[2]
    IN  CASE gate = "not" ->
               IF Len(args) = 1 THEN Returns(~x) ELSE Raises("TypeError")
          [] gate \in {"or", "nor", "xor", "and", "nand", "implies", "equals", "xnor"} ->
               IF Len(args) # 2 THEN Raises("TypeError")
               ELSE CASE gate = "or" -> Returns(x \/ y)
                      [] gate = "nor" -> Returns(~(x \/ y))
                      [] gate = "xor" -> Returns(x # y)
                      [] gate = "and" -> Returns(x /\ y)
                      [] gate = "nand" -> Returns(~(x /\ y))
                      [] gate = "implies" -> Returns(~x \/ y)
                      [] gate = "equals" -> Returns(x = y)
                      [] gate = "xnor" -> Returns(~(x # y))
          [] OTHER -> Raises("KeyError")

SINGLE_OPERAND_OPS == {"not", "~", "-"}

DOUBLE_OPERAND_OPS ==
    {"and", "nand", "or", "nor", "xor", "xnor", "=>", "implies", "=", "!="}

----------------------------------------------------------------------------
(* circuit.py 45-87, 151-165: Node and its factories.                       *)

Node(left, right, gate, label, is_leaf_node, value) ==
    [left |-> left, right |-> right, gate |-> gate, label |-> label,
     is_leaf_node |-> is_leaf_node, value |-> value]

leaf_node(value) == Node(NoneNode, NoneNode, None, None, TRUE, value)

double_operand_gate_node(left, right, gate, label) ==
    Node(left, right, gate, label, FALSE, None)

single_operand_gate_node(left, gate, label) ==
    Node(left, NoneNode, gate, label, FALSE, None)

get_value_or_label(node) ==
    IF node.is_leaf_node THEN node.value ELSE node.label

\* The 6-tuple (left_notation, right_notation, gate, label, is_leaf_node, value).
representation(node) ==
    <<IF node.left # NoneNode THEN get_value_or_label(node.left) ELSE "",
      IF node.right # NoneNode THEN get_value_or_label(node.right) ELSE "",
      IF node.gate # None THEN node.gate ELSE "",
      node.label,
      node.is_leaf_node,
      IF node.value # None THEN node.value ELSE "">>

\* faulty_set is used for membership only; it is a set here.
RECURSIVE evaluate_given_inputs(_, _, _)
evaluate_given_inputs(node, inputs, faulty_set) ==
    IF node = NoneNode THEN Raises("AttributeError")
    ELSE IF node.is_leaf_node THEN
        IF node.value \in DOMAIN inputs THEN Returns(inputs[node.value])
        ELSE Raises("KeyError")
    ELSE
        LET left_value == evaluate_given_inputs(node.left, inputs, faulty_set)
            right_value == evaluate_given_inputs(node.right, inputs, faulty_set)
            output ==
                IF node.gate \in DOUBLE_OPERAND_OPS THEN
                    IF IsRaise(right_value) THEN right_value
                    ELSE BASE_OPERATIONS(node.gate, <<left_value.value, right_value.value>>)
                ELSE BASE_OPERATIONS(node.gate, <<left_value.value>>)
        IN  IF IsRaise(left_value) THEN left_value
            ELSE IF IsRaise(output) THEN output
            ELSE IF node.label \in faulty_set THEN Returns(~output.value)
            ELSE output

----------------------------------------------------------------------------
(* A Python dict: the sequence of its <<key, value>> items in insertion     *)
(* order, keys distinct.  Assigning to a key that is present keeps its      *)
(* position.                                                                *)

DictKeys(d) == {d[i][1] : i \in 1..Len(d)}
DictGet(d, k) == d[CHOOSE i \in 1..Len(d) : d[i][1] = k][2]
DictSet(d, k, v) ==
    IF k \in DictKeys(d)
    THEN [i \in 1..Len(d) |-> IF d[i][1] = k THEN <<k, v>> ELSE d[i]]
    ELSE Append(d, <<k, v>>)

Range(s) == {s[i] : i \in 1..Len(s)}

----------------------------------------------------------------------------
(* circuit.py 168-196: Circuit.                                             *)

\* The head attribute does not exist until add_node is called with is_head.
NoHead == "<no attribute>"

\* Circuit.__init__
Circuit == [gates |-> <<>>, gate_labels |-> <<>>, nodes |-> <<>>, head |-> NoHead]

\* Circuit.add_node: the circuit after the call (it returns node.is_leaf_node).
add_node(self, node, is_head) ==
    [nodes |-> DictSet(self.nodes, node.label, node),
     gates |-> IF ~node.is_leaf_node
               THEN DictSet(self.gates, node.label, node) ELSE self.gates,
     gate_labels |-> IF ~node.is_leaf_node
                     THEN Append(self.gate_labels, node.label)
                     ELSE self.gate_labels,
     head |-> IF is_head THEN node.label ELSE self.head]

\* evaluate_with_faults with the root looked up among all nodes, self.nodes,
\* where the code looks it up among the gates.
evaluate_with_faults_any_node(self, inputs, faulty_set) ==
    IF self.head = NoHead THEN Raises("AttributeError")
    ELSE IF self.head \notin DictKeys(self.nodes) THEN Raises("KeyError")
    ELSE evaluate_given_inputs(DictGet(self.nodes, self.head), inputs, faulty_set)

\* Circuit.evaluate_with_faults
evaluate_with_faults(self, inputs, faulty_set) ==
    IF self.head = NoHead THEN Raises("AttributeError")
    ELSE IF self.head \notin DictKeys(self.gates) THEN Raises("KeyError")
    ELSE evaluate_given_inputs(DictGet(self.gates, self.head), inputs, faulty_set)

\* The loop of save_circuit over the values of self.gates, from item i on.
RECURSIVE save_circuit_loop(_, _, _)
save_circuit_loop(self, i, circuit_representation) ==
    IF i > Len(self.gates) THEN circuit_representation
    ELSE LET node == self.gates[i][2]
         IN  save_circuit_loop(self, i + 1,
                 IF node.label = self.head
                 THEN <<representation(node)>> \o circuit_representation
                 ELSE Append(circuit_representation, representation(node)))

\* Circuit.save_circuit: self.head is read once per gate.
save_circuit(self) ==
    IF self.gates # <<>> /\ self.head = NoHead THEN Raises("AttributeError")
    ELSE Returns(save_circuit_loop(self, 1, <<>>))

----------------------------------------------------------------------------
(* circuit.py 117-148: create_circuit_with_head_node.                       *)

RECURSIVE traverse_and_add(_, _, _)
traverse_and_add(c, node, is_head) ==
    LET c1 == add_node(c, node, is_head)
        c2 == IF node.left # NoneNode
              THEN traverse_and_add(c1, node.left, FALSE) ELSE c1
    IN  IF node.is_leaf_node THEN c1
        ELSE IF node.right # NoneNode
             THEN traverse_and_add(c2, node.right, FALSE) ELSE c2

create_circuit_with_head_node(node) == traverse_and_add(Circuit, node, TRUE)

----------------------------------------------------------------------------
(* circuit.py 210-225: minimal_list_of_lists.                               *)

\* sorted(sublist) for a list of label strings.
RECURSIVE sorted_from(_, _)
sorted_from(sublist, k) ==
    IF k > Len(LabelOrder) THEN <<>>
    ELSE SelectSeq(sublist, LAMBDA l : l = LabelOrder[k]) \o sorted_from(sublist, k + 1)

sorted(sublist) == sorted_from(sublist, 1)

\* set(tuple(sorted(sublist)) for sublist in lists)
unique_tuples(lists) == {sorted(lists[i]) : i \in 1..Len(lists)}

\* A set is iterated in an order the language does not fix: every sequence
\* that lists the elements of S once is a possible unique_lists.
RECURSIVE set_iteration_orders(_)
set_iteration_orders(S) ==
    IF S = {} THEN {<<>>}
    ELSE UNION {{<<x>> \o rest : rest \in set_iteration_orders(S \ {x})} : x \in S}

\* unique_lists.sort(key=len): a stable sort, shortest first.
RECURSIVE sort_by_len_from(_, _)
sort_by_len_from(unique_lists, n) ==
    IF \A i \in 1..Len(unique_lists) : Len(unique_lists[i]) < n THEN <<>>
    ELSE SelectSeq(unique_lists, LAMBDA l : Len(l) = n)
         \o sort_by_len_from(unique_lists, n + 1)

\* minimal_list_of_lists without its sort: the lists stay in the order the
\* set was iterated in.
sort_by_len_skipped(unique_lists) == unique_lists

sort_by_len(unique_lists) == sort_by_len_from(unique_lists, 0)

\* The loop with the wrong set test: a list is dropped when it shares a
\* label with an accepted one, where the code asks for a subset.
RECURSIVE minimal_set_loop_intersects(_, _, _)
minimal_set_loop_intersects(unique_lists, i, minimal_set) ==
    IF i > Len(unique_lists) THEN minimal_set
    ELSE LET sublist == unique_lists[i]
         IN  minimal_set_loop_intersects(unique_lists, i + 1,
                 IF ~\E j \in 1..Len(minimal_set) :
                        Range(minimal_set[j]) \cap Range(sublist) # {}
                 THEN Append(minimal_set, sublist)
                 ELSE minimal_set)

\* The loop over the sorted unique_lists from item i on.
RECURSIVE minimal_set_loop(_, _, _)
minimal_set_loop(unique_lists, i, minimal_set) ==
    IF i > Len(unique_lists) THEN minimal_set
    ELSE LET sublist == unique_lists[i]
         IN  minimal_set_loop(unique_lists, i + 1,
                 IF ~\E j \in 1..Len(minimal_set) :
                        Range(minimal_set[j]) \subseteq Range(sublist)
                 THEN Append(minimal_set, sublist)
                 ELSE minimal_set)

\* minimal_list_of_lists(lists), unique_lists being the order in which the
\* set of sorted tuples was iterated.
minimal_list_of_lists(lists, unique_lists) ==
    minimal_set_loop(sort_by_len(unique_lists), 1, <<>>)

----------------------------------------------------------------------------
(* circuit.py 199-207: find_minimal_faulty_gates.                           *)

\* itertools.combinations(gates, r): the r-element subsequences of gates by
\* position, in lexicographic order of the positions.
RECURSIVE combinations(_, _)
combinations(gates, r) ==
    IF r = 0 THEN << <<>> >>
    ELSE IF Len(gates) < r THEN <<>>
    ELSE LET with_head == combinations(Tail(gates), r - 1)
         IN  [i \in 1..Len(with_head) |-> <<Head(gates)>> \o with_head[i]]
             \o combinations(Tail(gates), r)

\* int(result)
int(b) == IF b THEN 1 ELSE 0

\* The two nested loops, as one pass over the combinations of every size
\* from r on: Returns(all_faulty_sets), or the first exception raised.
RECURSIVE all_faulty_sets_loop(_, _, _, _, _, _)
all_faulty_sets_loop(self, inputs, expected_output, r, i, all_faulty_sets) ==
    LET gates == self.gate_labels
        combos == combinations(gates, r)
    IN  IF r > Len(gates) THEN Returns(all_faulty_sets)
        ELSE IF i > Len(combos)
        THEN all_faulty_sets_loop(self, inputs, expected_output, r + 1, 1, all_faulty_sets)
        ELSE LET faulty_set == combos[i]
                 result == evaluate_with_faults(self, inputs, Range(faulty_set))
             IN  IF IsRaise(result) THEN result
                 ELSE all_faulty_sets_loop(self, inputs, expected_output, r, i + 1,
                          IF int(result.value) = expected_output
                          THEN Append(all_faulty_sets, faulty_set)
                          ELSE all_faulty_sets)

all_faulty_sets(self, inputs, expected_output) ==
    all_faulty_sets_loop(self, inputs, expected_output, 1, 1, <<>>)

\* find_minimal_faulty_gates without the reduction: every recorded set is
\* returned.
find_minimal_faulty_gates_unreduced(self, inputs, expected_output, unique_lists) ==
    all_faulty_sets(self, inputs, expected_output)

find_minimal_faulty_gates(self, inputs, expected_output, unique_lists) ==
    LET all == all_faulty_sets(self, inputs, expected_output)
    IN  IF IsRaise(all) THEN all
        ELSE Returns(minimal_list_of_lists(all.value, unique_lists))

----------------------------------------------------------------------------
(* circuit.py 228-265: create_circuit_from_list.                            *)

\* req_dict[label] = [gate, left_notation, right_notation]; a later record
\* with the same label replaces an earlier one.
req_dict(circuit_representation) ==
    LET n == Len(circuit_representation)
        last(label) == CHOOSE i \in 1..n :
            /\ circuit_representation[i][4] = label
            /\ \A j \in (i + 1)..n : circuit_representation[j][4] # label
    IN  [label \in {circuit_representation[i][4] : i \in 1..n} |->
            <<circuit_representation[last(label)][3],
              circuit_representation[last(label)][1],
              circuit_representation[last(label)][2]>>]

\* traverse_and_create_node, depth frames deep.  The code has no guard of
\* its own; the interpreter raises RecursionError at its recursion limit.
RECURSIVE traverse_and_create_node(_, _, _)
traverse_and_create_node(dict, label, depth) ==
    IF depth > RecursionLimit THEN Raises("RecursionError")
    ELSE IF islower(label) THEN Returns(leaf_node(label))
    ELSE IF label \notin DOMAIN dict THEN Raises("KeyError")
    ELSE
        LET gate == dict[label][1]
            left_node == traverse_and_create_node(dict, dict[label][2], depth + 1)
            right_node == traverse_and_create_node(dict, dict[label][3], depth + 1)
        IN  IF gate \in SINGLE_OPERAND_OPS THEN
                IF IsRaise(left_node) THEN left_node
                ELSE Returns(single_operand_gate_node(left_node.value, gate, label))
            ELSE IF gate \in DOUBLE_OPERAND_OPS THEN
                IF IsRaise(left_node) THEN left_node
                ELSE IF IsRaise(right_node) THEN right_node
                ELSE Returns(double_operand_gate_node(left_node.value, right_node.value,
                                                      gate, label))
            ELSE Raises("SystemExit")

create_circuit_from_list(circuit_representation) ==
    IF circuit_representation = <<>> THEN Raises("IndexError")
    ELSE LET head_label == circuit_representation[1][4]
             head_node == traverse_and_create_node(req_dict(circuit_representation),
                                                   head_label, 1)
         IN  IF IsRaise(head_node) THEN head_node
             ELSE Returns(create_circuit_with_head_node(head_node.value))

----------------------------------------------------------------------------
(* The inputs the operations are called with.                               *)

Variables == {"a", "b", "c"}
GateLabels == {"A", "B"}
UnaryOps == {"not"}
BinaryOps == {"and", "nand", "or", "nor", "xor", "xnor", "implies", "equals"}

\* Input assignments: every variable has a boolean value.
Inputs == [Variables -> BOOLEAN]

\* One gate over leaves, built with the factory of the operator's arity.
OneGate(label) ==
    {single_operand_gate_node(leaf_node("a"), gate, label) : gate \in UnaryOps}
    \cup {double_operand_gate_node(leaf_node("a"), leaf_node("b"), gate, label) :
              gate \in BinaryOps}

\* A root gate over one gate and, for a binary root, the leaf c.
TwoGates(root, label) ==
    UNION {{single_operand_gate_node(n, gate, root) : gate \in UnaryOps}
           \cup {double_operand_gate_node(n, leaf_node("c"), gate, root) : gate \in BinaryOps}
           \cup {double_operand_gate_node(leaf_node("c"), n, gate, root) : gate \in BinaryOps}
           : n \in OneGate(label)}

Leaves == {leaf_node(v) : v \in Variables}

\* The trees create_circuit_with_head_node is called with: a leaf, one gate
\* A, or a root gate B over a gate A.
Trees == Leaves \cup OneGate("A") \cup TwoGates("B", "A")

\* The nodes add_node is called with directly: two leaves, the two gates of
\* the sanity test (A = a and b, B = A or c), and another gate labelled A.
a_and_b_node == double_operand_gate_node(leaf_node("a"), leaf_node("b"), "and", "A")
a_and_b_or_c_node == double_operand_gate_node(a_and_b_node, leaf_node("c"), "or", "B")

AddedNodes ==
    {leaf_node("a"), leaf_node("b"), a_and_b_node, a_and_b_or_c_node,
     double_operand_gate_node(leaf_node("a"), leaf_node("b"), "or", "A")}

\* Record lists that no save_circuit produces: a gate that refers to itself,
\* two gates that refer to each other, a reference without a record.
MalformedRecords ==
    {<< <<"A", "b", "and", "A", FALSE, "">> >>,
     << <<"B", "", "not", "A", FALSE, "">>, <<"a", "A", "or", "B", FALSE, "">> >>,
     << <<"B", "c", "or", "A", FALSE, "">> >>}

\* Candidate lists for minimal_list_of_lists: each candidate a label set,
\* written as a list of distinct labels in some order.
RECURSIVE SeqsUpTo(_, _)
SeqsUpTo(S, n) ==
    IF n = 0 THEN {<<>>}
    ELSE LET shorter == SeqsUpTo(S, n - 1)
         IN  shorter \cup {Append(s, x) : s \in shorter, x \in S}

Candidates ==
    {s \in SeqsUpTo(Range(LabelOrder), Len(LabelOrder)) :
        \A i, j \in 1..Len(s) : i # j => s[i] # s[j]}

CandidateLists == SeqsUpTo(Candidates, MaxLists)

----------------------------------------------------------------------------
(* The state: the Circuit object, the head node it was built from by        *)
(* create_circuit_with_head_node (NoneNode when it was built by add_node    *)
(* calls), and the last call with its outcome.                              *)

Init ==
    /\ circuit = Circuit
    /\ tree = NoneNode
    /\ out = [op |-> "Circuit"]

\* The calls below neither read out nor, the building ones apart, change
\* circuit and tree: a call made after a query returns what it returns when
\* made right after the circuit was built, and is explored there.
Built == out.op \in {"Circuit", "add_node", "create_circuit_with_head_node"}

NewCircuit ==
    /\ circuit # Circuit \/ out.op # "Circuit"
    /\ circuit' = Circuit
    /\ tree' = NoneNode
    /\ out' = [op |-> "Circuit"]

AddNode(node, is_head) ==
    /\ Built
    /\ Len(circuit.gate_labels) < MaxGateLabels
    /\ circuit' = add_node(circuit, node, is_head)
    /\ tree' = NoneNode
    /\ out' = [op |-> "add_node", node |-> node, is_head |-> is_head,
               result |-> Returns(node.is_leaf_node)]

\* The function builds into a Circuit() of its own (line 126), so its result
\* does not depend on the state it is called in: it is explored from the
\* freshly constructed circuit, which every state reaches by NewCircuit.
CreateCircuitWithHeadNode(node) ==
    /\ Built
    /\ circuit = Circuit
    /\ circuit' = create_circuit_with_head_node(node)
    /\ tree' = node
    /\ out' = [op |-> "create_circuit_with_head_node"]

EvaluateWithFaults(inputs, faulty_set) ==
    /\ Built
    /\ out' = [op |-> "evaluate_with_faults", inputs |-> inputs,
               faulty_set |-> faulty_set,
               result |-> evaluate_with_faults(circuit, inputs, faulty_set)]
    /\ UNCHANGED <<circuit, tree>>

\* The sort by length is stable, so the sorted unique_lists range over the
\* orders of the set that are sorted by length already; those are drawn.
FindMinimalFaultyGates(inputs, expected_output) ==
    LET all == all_faulty_sets(circuit, inputs, expected_output)
    IN  /\ Built
        /\ \E unique_lists \in
                 IF IsRaise(all) THEN {<<>>}
                 ELSE {u \in set_iteration_orders(unique_tuples(all.value)) :
                          sort_by_len(u) = u} :
             out' = [op |-> "find_minimal_faulty_gates", inputs |-> inputs,
                     expected_output |-> expected_output,
                     result |-> find_minimal_faulty_gates(circuit, inputs,
                                    expected_output, unique_lists)]
        /\ UNCHANGED <<circuit, tree>>

SaveCircuit ==
    /\ Built
    /\ out' = [op |-> "save_circuit", result |-> save_circuit(circuit)]
    /\ UNCHANGED <<circuit, tree>>

CreateCircuitFromList(circuit_representation) ==
    /\ Built
    /\ out' = [op |-> "create_circuit_from_list",
               circuit_representation |-> circuit_representation,
               result |-> create_circuit_from_list(circuit_representation)]
    /\ UNCHANGED <<circuit, tree>>

Next ==
    \/ NewCircuit
    \/ \E node \in AddedNodes, is_head \in BOOLEAN : AddNode(node, is_head)
    \/ \E node \in Trees : CreateCircuitWithHeadNode(node)
    \/ \E inputs \in Inputs, faulty_set \in SUBSET GateLabels :
           EvaluateWithFaults(inputs, faulty_set)
    \/ \E inputs \in Inputs, expected_output \in {0, 1} :
           FindMinimalFaultyGates(inputs, expected_output)
    \/ SaveCircuit
    \/ \E circuit_representation \in
           (IF IsRaise(save_circuit(circuit)) THEN {} ELSE {save_circuit(circuit).value})
           \cup MalformedRecords :
           CreateCircuitFromList(circuit_representation)

Spec == Init /\ [][Next]_vars

----------------------------------------------------------------------------
(* minimal_list_of_lists on its own: the candidate list is drawn, then the  *)
(* function is applied to it under every iteration order of the set.        *)

InitReduce ==
    /\ circuit = Circuit
    /\ tree = NoneNode
    /\ \E lists \in CandidateLists :
           out = [op |-> "candidates", lists |-> lists]

MinimalListOfLists ==
    /\ out.op = "candidates"
    /\ \E unique_lists \in set_iteration_orders(unique_tuples(out.lists)) :
           out' = [op |-> "minimal_list_of_lists", lists |-> out.lists,
                   result |-> Returns(minimal_list_of_lists(out.lists, unique_lists))]
    /\ UNCHANGED <<circuit, tree>>

NextReduce == MinimalListOfLists

SpecReduce == InitReduce /\ [][NextReduce]_vars

----------------------------------------------------------------------------
(* What the claims are stated with.                                         *)

\* The operator table of the specification: the value of op on x (and y).
TableSemantics(op, x, y) ==
    CASE op = "not" -> ~x
      [] op = "and" -> x /\ y
      [] op = "nand" -> ~(x /\ y)
      [] op = "or" -> x \/ y
      [] op = "nor" -> ~(x \/ y)
      [] op = "xor" -> x # y
      [] op = "xnor" -> x = y
      [] op = "implies" -> ~x \/ y
      [] op = "equals" -> x = y

TableArity(op) == IF op = "not" THEN 1 ELSE 2

\* The value of a tree when every gate whose label is in faulty_set hands
\* its parent the negation of its table value; faulty_set = {} gives the
\* ordinary boolean value of the tree.
RECURSIVE TableValue(_, _, _)
TableValue(node, inputs, faulty_set) ==
    IF node.is_leaf_node THEN inputs[node.value]
    ELSE LET x == TableValue(node.left, inputs, faulty_set)
             y == IF TableArity(node.gate) = 2
                  THEN TableValue(node.right, inputs, faulty_set) ELSE FALSE
             output == TableSemantics(node.gate, x, y)
         IN  IF node.label \in faulty_set THEN ~output ELSE output

\* The nodes of a tree.
RECURSIVE NodesOf(_)
NodesOf(node) ==
    IF node = NoneNode THEN {}
    ELSE {node} \cup NodesOf(node.left) \cup NodesOf(node.right)

\* The circuit has a designated root and it is a gate.
HasRootGate == circuit.head \in DictKeys(circuit.gates)
RootGate == DictGet(circuit.gates, circuit.head)

\* The label sets named by a list of label lists.
SetsOf(lists) == {Range(lists[i]) : i \in 1..Len(lists)}

Evaluated == out.op = "evaluate_with_faults"
Found == out.op = "find_minimal_faulty_gates"
Reduced == out.op = "minimal_list_of_lists"
Rebuilt == out.op = "create_circuit_from_list"

----------------------------------------------------------------------------
(* C1.  For every canonical operator and all operand values, evaluating a   *)
(* gate that carries the operator over leaf operands (one operand for not,  *)
(* two for the others) with an empty fault set returns the value the        *)
(* operator table gives.                                                    *)
OperatorTableSemantics ==
    (/\ Evaluated
     /\ out.faulty_set = {}
     /\ tree \in OneGate("A"))
    => out.result = Returns(TableSemantics(tree.gate, out.inputs["a"], out.inputs["b"]))

----------------------------------------------------------------------------
(* C6.  A gate returns the negation of its operator result exactly when its *)
(* label is in the fault set, and its parent consumes that value; with the  *)
(* empty fault set evaluate_with_faults returns the ordinary boolean value  *)
(* of the tree.                                                             *)
FaultInjectionPoint ==
    (Evaluated /\ HasRootGate)
    => out.result = Returns(TableValue(RootGate, out.inputs, out.faulty_set))

----------------------------------------------------------------------------
(* C7.  evaluate_with_faults returns no boolean when the root contract is   *)
(* broken: it raises AttributeError (MissingRoot) when no add_node call was *)
(* ever made with is_head, and KeyError (UnknownGate) when the root label   *)
(* is that of a leaf.                                                       *)
RootContractErrors ==
    Evaluated =>
        /\ circuit.head = NoHead => out.result = Raises("AttributeError")
        /\ (/\ circuit.head # NoHead
            /\ DictGet(circuit.nodes, circuit.head).is_leaf_node)
           => out.result = Raises("KeyError")

\* A leaf was registered as the root of a circuit that holds a gate, and
\* the evaluation raised.
RootContractWitness ==
    /\ Evaluated
    /\ circuit.head = None
    /\ circuit.gates # <<>>
    /\ out.result = Raises("KeyError")

----------------------------------------------------------------------------
(* C9.  After create_circuit_with_head_node the nodes map has a separate    *)
(* entry for every node of the tree, leaves as well as gates.               *)
EveryNodeRegistered ==
    tree # NoneNode =>
        /\ \A n \in NodesOf(tree) :
               \E k \in DictKeys(circuit.nodes) : DictGet(circuit.nodes, k) = n
        /\ Len(circuit.nodes) = Cardinality(NodesOf(tree))

----------------------------------------------------------------------------
(* C10.  After any sequence of add_node calls the gate map holds, for each  *)
(* label, the node registered last under it, and the gate-label list holds  *)
(* each gate label exactly once: its elements are the keys of the gate map. *)
RegistryConsistent ==
    /\ (out.op = "add_node" /\ ~out.node.is_leaf_node)
       => DictGet(circuit.gates, out.node.label) = out.node
    /\ Range(circuit.gate_labels) = DictKeys(circuit.gates)
    /\ \A i, j \in 1..Len(circuit.gate_labels) :
           i # j => circuit.gate_labels[i] # circuit.gate_labels[j]

----------------------------------------------------------------------------
(* C2.  The label sets that explain the observation: the non-empty sets S   *)
(* of gate labels for which evaluate_with_faults(inputs, S) returns the     *)
(* expected output.                                                         *)
Explains(S) ==
    evaluate_with_faults(circuit, out.inputs, S) = Returns(out.expected_output = 1)

Explanations == {S \in (SUBSET Range(circuit.gate_labels)) \ {{}} : Explains(S)}

MinimalExplanations ==
    {S \in Explanations : \A T \in Explanations : T \subseteq S => T = S}

\* The circuit of the sanity test: add_node(A, False), add_node(B, True).
SanityCircuit == add_node(add_node(Circuit, a_and_b_node, FALSE), a_and_b_or_c_node, TRUE)
AllTrue == [v \in Variables |-> TRUE]

----------------------------------------------------------------------------
(* C3.  Antichain: no set of the output of minimal_list_of_lists is a       *)
(* subset of another one, whatever the candidates (duplicates and one set   *)
(* in several element orders included).                                     *)
Antichain ==
    Reduced =>
        \A i, j \in 1..Len(out.result.value) :
            i # j => ~(Range(out.result.value[i]) \subseteq Range(out.result.value[j]))

\* One set was given in two element orders, and two sets were accepted.
AntichainWitness ==
    /\ Reduced
    /\ Len(out.result.value) >= 2
    /\ \E i, j \in 1..Len(out.lists) :
           out.lists[i] # out.lists[j] /\ Range(out.lists[i]) = Range(out.lists[j])

----------------------------------------------------------------------------
----------------------------------------------------------------------------
(* C5.  Round trip: for a tree built with the factories, the circuit        *)
(* create_circuit_from_list(save_circuit()) evaluates as the circuit of the *)
(* tree does, for every input assignment and every fault set.               *)
RoundTripFidelity ==
    (/\ Rebuilt
     /\ tree # NoneNode
     /\ ~tree.is_leaf_node
     /\ save_circuit(circuit) = Returns(out.circuit_representation))
    => /\ ~IsRaise(out.result)
       /\ \A inputs \in Inputs, faulty_set \in SUBSET GateLabels :
              evaluate_with_faults(out.result.value, inputs, faulty_set)
                  = evaluate_with_faults(circuit, inputs, faulty_set)

----------------------------------------------------------------------------
(* C8.  create_circuit_from_list ends on every record list: records that    *)
(* refer to each other in a cycle end in an error of the reconstruction,    *)
(* the recursion is not left to run into the recursion limit.               *)
CycleIsReported ==
    Rebuilt => out.result # Raises("RecursionError")

====
